---- MODULE Spec2Model ----
(***************************************************************************)
(* A model of the Tai/Xiu service: the outcome deriver, the pattern        *)
(* predictor, the feature extractor, the background ingestion loop and the *)
(* query endpoint (src/main.py, src/features.py).                          *)
(*                                                                         *)
(* Strings of the source are kept in ASCII: "Tai" is the source's High     *)
(* outcome, "Xiu" its Low outcome.                                         *)
(***************************************************************************)
EXTENDS Integers, Sequences, FiniteSets, TLC

\* ------------------------------------------------------------------ bounds
\* Longest outcome history handed to the predictor and the feature extractor.
MaxHist == 8
\* Largest face value of a dice list handed to get_tai_xiu_result.
MaxFace == 7
\* Number of requests the query client issues.
MaxQueries == 1

\* --------------------------------------------------------------- constants
Tai == "Tai"
Xiu == "Xiu"
Outcomes == {Tai, Xiu}
\* Python's None (the empty tuple, which equals no value of the model that is
\* not empty), and an exception raised instead of a value returned
None == <<>>
Raised(exc) == [exc |-> exc]

VARIABLES
    \* the ingestion loops and the table they share
    store,                       \* rows of phien_tai_xiu
    is_background_task_running,  \* per process: the module-level flag
    pc,                          \* per process: where the background task is
    last_processed_expect,       \* per process: the loop's cache
    response,                    \* per process: what client.get delivered
    new_phien,                   \* per process: the values parsed for this iteration
    log,                         \* per process: what this iteration printed last
    \* the query endpoint
    qpc, current_phien_record, http_response, n_queries,
    \* get_tai_xiu_result
    xuc_xac_values, current_result_data,
    \* analyze_patterns_and_predict / extract_features
    historical_results, prediction, features_df, phase

ingest_vars == <<store, is_background_task_running, pc, last_processed_expect,
                 response, new_phien, log>>
query_vars == <<qpc, current_phien_record, http_response, n_queries>>
dice_vars == <<xuc_xac_values, current_result_data>>
hist_vars == <<historical_results, prediction, features_df>>
vars == <<ingest_vars, query_vars, dice_vars, hist_vars, phase>>
\* what the background tasks never touch
rest_vars == <<query_vars, dice_vars, hist_vars, phase>>

\* ----------------------------------------------------- get_tai_xiu_result
\* Variant: the triple ("Bao") override of lines 65-66 left out.
get_tai_xiu_result_no_bao(v) ==
    IF Len(v) # 3 THEN Raised("ValueError")
    ELSE LET tong == v[1] + v[2] + v[3]
         IN  [Tong |-> tong, Xuc_xac_1 |-> v[1], Xuc_xac_2 |-> v[2],
              Xuc_xac_3 |-> v[3],
              Ket_qua |-> IF 11 <= tong /\ tong <= 17 THEN Tai ELSE Xiu]

\* Lines 55-68; ValueError for a list that does not hold three values.
get_tai_xiu_result(v) ==
    IF Len(v) # 3 THEN Raised("ValueError")
    ELSE LET x1 == v[1]
             x2 == v[2]
             x3 == v[3]
             tong == x1 + x2 + x3
             base == IF 11 <= tong /\ tong <= 17 THEN Tai ELSE Xiu
             ket_qua == IF x1 = x2 /\ x2 = x3 THEN Xiu ELSE base
         IN  [Tong |-> tong, Xuc_xac_1 |-> x1, Xuc_xac_2 |-> x2,
              Xuc_xac_3 |-> x3, Ket_qua |-> ket_qua]

\* ------------------------------------------- analyze_patterns_and_predict
\* historical_results[::-1]
Reverse(s) == [i \in 1..Len(s) |-> s[Len(s) + 1 - i]]

\* list.count
Count(s, x) == Cardinality({i \in 1..Len(s) : s[i] = x})

MinOf(S) == CHOOSE m \in S : \A n \in S : m <= n

\* f"{x * 100:.0f}" of x = c / n: the nearest whole number, a half going to the
\* even neighbour.
Fmt0(c, n) ==
    LET q == (100 * c) \div n
        r == (100 * c) % n
    IN  IF 2 * r < n THEN q
        ELSE IF 2 * r > n THEN q + 1
        ELSE IF q % 2 = 0 THEN q ELSE q + 1

\* A prediction: the predicted outcome, and Ty_le_thang as its percentage, the
\* rationale in its brackets and (for the run rule) the run length it prints.
Result(kq, pct, ly_do, dai) ==
    [Ket_qua_du_doan |-> kq, pct |-> pct, ly_do |-> ly_do, dai |-> dai]

KhongDuDuLieu == "Khong du du lieu de phan tich cau"
KhongCoDuLieu == "Khong co du lieu"
CauBet == "theo cau bet dai"
CauDao == "theo cau dao"
Cau121 == "theo cau 1-2-1/2-1-1"
Cau112 == "theo cau 1-1-2"
ThongKeChung == "thong ke chung"
Plain == ""

\* the sequence the rules examine
recent_history(h) == Reverse(h)

\* the run rule's loop: the values of i at which it would return
BetMatches(r) ==
    {i \in 3..Len(r) : \A k \in 1..i : r[k] = r[1]}

is_alternating(r) == \A i \in 1..(Len(r) - 1) : r[i] # r[i + 1]

Is121(r) == r[1] = r[4] /\ r[2] = r[3] /\ r[1] # r[2]
Is112(r) == r[1] = r[3] /\ r[3] = r[4] /\ r[1] # r[2]

\* Variant: a tie decided for Tai (>= in place of > at line 125).
FrequencyTieTai(h) ==
    LET tai_count == Count(h, Tai)
        xiu_count == Count(h, Xiu)
        total_count == Len(h)
    IN  IF total_count = 0 THEN {Result(KhongCoDuLieu, 0, Plain, 0)}
        ELSE IF tai_count >= xiu_count
             THEN {Result(Tai, Fmt0(tai_count, total_count), ThongKeChung, 0)}
        ELSE {Result(Xiu, Fmt0(xiu_count, total_count), ThongKeChung, 0)}

\* lines 118-135: the set of results the frequency branch can return
Frequency(h) ==
    LET tai_count == Count(h, Tai)
        xiu_count == Count(h, Xiu)
        total_count == Len(h)
    IN  IF total_count = 0 THEN {Result(KhongCoDuLieu, 0, Plain, 0)}
        ELSE IF tai_count > xiu_count
             THEN {Result(Tai, Fmt0(tai_count, total_count), ThongKeChung, 0)}
        ELSE IF xiu_count > tai_count
             THEN {Result(Xiu, Fmt0(xiu_count, total_count), ThongKeChung, 0)}
        ELSE {Result(o, 50, ThongKeChung, 0) : o \in {Tai, Xiu}}

\* The set of results a call can return (two when random.choice decides).
analyze_patterns_and_predict(h) ==
    IF Len(h) < 5 THEN {Result(KhongDuDuLieu, 0, Plain, 0)}
    ELSE LET r == recent_history(h)
         IN  IF BetMatches(r) # {}
             THEN LET i == MinOf(BetMatches(r))
                      pct == IF 50 + i * 5 < 85 THEN 50 + i * 5 ELSE 85
                  IN  {Result(r[1], pct, CauBet, i)}
             ELSE IF Len(r) >= 4 /\ is_alternating(r)
             THEN {Result(IF r[1] = Xiu THEN Tai ELSE Xiu, 65, CauDao, 0)}
             ELSE IF Len(r) >= 4 /\ Is121(r)
             THEN {Result(r[2], 60, Cau121, 0)}
             ELSE IF Len(r) >= 4 /\ Is112(r)
             THEN {Result(r[2], 58, Cau112, 0)}
             ELSE Frequency(h)

\* ------------------------------------------------------- extract_features
FEATURE_COLUMNS ==
    <<"last_outcome_is_tai", "length_of_current_streak",
      "tai_ratio_last_5", "xiu_ratio_last_5",
      "tai_ratio_last_10", "xiu_ratio_last_10",
      "tai_ratio_last_20", "xiu_ratio_last_20",
      "num_switches_last_5", "num_switches_last_10",
      "is_alternating_last_4", "is_two_streak_alternating_last_6",
      "longest_tai_streak_last_20", "longest_xiu_streak_last_20">>

\* results[:N]
Take(s, N) == SubSeq(s, 1, IF Len(s) < N THEN Len(s) ELSE N)

\* the number of leading entries equal to outcome_type
_calculate_streak(results, outcome_type) ==
    LET stops == {i \in 1..Len(results) : results[i] # outcome_type}
    IN  IF stops = {} THEN Len(results) ELSE MinOf(stops) - 1

MaxOf(S) == CHOOSE m \in S : \A n \in S : m >= n

\* the longest run of outcome_type anywhere in results
_get_longest_streak(results, outcome_type) ==
    MaxOf({0} \cup
          {j - i + 1 : <<i, j>> \in
              {w \in (1..Len(results)) \X (1..Len(results)) :
                  w[1] <= w[2] /\ \A k \in w[1]..w[2] : results[k] = outcome_type}})

\* A ratio c / t is kept exactly, as the integer c * RatioScale / t: RatioScale
\* is the least common multiple of the window sizes 1..20.
RatioScale == 16 * 9 * 5 * 7 * 11 * 13 * 17 * 19
Ratio(c, t) == IF t > 0 THEN (c * RatioScale) \div t ELSE 0

\* the f-string keys of the window loop
TaiRatioKey(N) ==
    CASE N = 5 -> "tai_ratio_last_5" [] N = 10 -> "tai_ratio_last_10"
      [] N = 20 -> "tai_ratio_last_20"
XiuRatioKey(N) ==
    CASE N = 5 -> "xiu_ratio_last_5" [] N = 10 -> "xiu_ratio_last_10"
      [] N = 20 -> "xiu_ratio_last_20"
SwitchKey(N) ==
    CASE N = 5 -> "num_switches_last_5" [] N = 10 -> "num_switches_last_10"
      [] N = 20 -> "num_switches_last_20"

EmptyDict == [k \in {} |-> 0]

\* Variant: the switch count stored for N = 5 only (line 84).
WindowFeaturesOnly5(h, N) ==
    LET recent_results == Take(h, N)
        total_count == Len(recent_results)
        num_switches ==
            Cardinality({i \in 1..(total_count - 1) :
                            recent_results[i] # recent_results[i + 1]})
    IN  (TaiRatioKey(N) :> Ratio(Count(recent_results, Tai), total_count))
        @@ (XiuRatioKey(N) :> Ratio(Count(recent_results, Xiu), total_count))
        @@ (IF N = 5 THEN SwitchKey(N) :> num_switches ELSE EmptyDict)

\* one pass of "for N in [5, 10, 20]": the keys it sets
WindowFeatures(h, N) ==
    LET recent_results == Take(h, N)
        total_count == Len(recent_results)
        num_switches ==
            Cardinality({i \in 1..(total_count - 1) :
                            recent_results[i] # recent_results[i + 1]})
    IN  (TaiRatioKey(N) :> Ratio(Count(recent_results, Tai), total_count))
        @@ (XiuRatioKey(N) :> Ratio(Count(recent_results, Xiu), total_count))
        @@ (IF N = 5 \/ N = 10 THEN SwitchKey(N) :> num_switches ELSE EmptyDict)

\* the features dict built by lines 62-112
FeaturesDict(h) ==
    LET last_outcome == h[1]
        is_alternating_last_4 ==
            Len(h) >= 4 /\ h[1] # h[2] /\ h[2] # h[3] /\ h[3] # h[4]
        is_two_streak_alternating_last_6 ==
            Len(h) >= 6 /\ h[1] = h[2] /\ h[2] # h[3] /\ h[3] = h[4]
            /\ h[4] # h[5] /\ h[5] = h[6]
        recent_20_results == Take(h, 20)
    IN  ("last_outcome_is_tai" :> (IF last_outcome = Tai THEN 1 ELSE 0))
        @@ ("length_of_current_streak" :> _calculate_streak(h, last_outcome))
        @@ WindowFeatures(h, 5) @@ WindowFeatures(h, 10) @@ WindowFeatures(h, 20)
        @@ ("is_alternating_last_4" :> (IF is_alternating_last_4 THEN 1 ELSE 0))
        @@ ("is_two_streak_alternating_last_6" :>
               (IF is_two_streak_alternating_last_6 THEN 1 ELSE 0))
        @@ ("longest_tai_streak_last_20" :>
               _get_longest_streak(recent_20_results, Tai))
        @@ ("longest_xiu_streak_last_20" :>
               _get_longest_streak(recent_20_results, Xiu))

\* pd.DataFrame(rows, columns=columns): one cell per column and row; a cell is
\* <<v>> when the row gives the column the value v, and <<>> (NaN) when the
\* row has no such key.
NaN == <<>>
DataFrameOfDicts(dicts, columns) ==
    [columns |-> columns,
     rows |-> [n \in 1..Len(dicts) |->
                 [i \in 1..Len(columns) |->
                     IF columns[i] \in DOMAIN dicts[n]
                     THEN <<dicts[n][columns[i]]>> ELSE NaN]]]
DataFrameOfLists(lists, columns) ==
    [columns |-> columns,
     rows |-> [n \in 1..Len(lists) |->
                 [i \in 1..Len(columns) |-> <<lists[n][i]>>]]]

extract_features(h) ==
    IF h = <<>>
    THEN DataFrameOfLists(<<[i \in 1..Len(FEATURE_COLUMNS) |-> 0]>>, FEATURE_COLUMNS)
    ELSE DataFrameOfDicts(<<FeaturesDict(h)>>, FEATURE_COLUMNS)

\* ------------------------------------------------------- initial values
\* The processes that run the application against one database; each has its
\* own running flag and its own background task.
Pollers == {"p1", "p2"}

\* The background tasks and the endpoint before the application starts.

IngestIdle ==
    /\ store = <<>>
    /\ is_background_task_running = [p \in Pollers |-> FALSE]
    /\ pc = [p \in Pollers |-> "idle"]
    /\ last_processed_expect = [p \in Pollers |-> None]
    /\ response = [p \in Pollers |-> None]
    /\ new_phien = [p \in Pollers |-> None]
    /\ log = [p \in Pollers |-> Plain]
QueryIdle ==
    /\ qpc = "idle"
    /\ current_phien_record = None
    /\ http_response = None
    /\ n_queries = 0
DiceIdle ==
    /\ xuc_xac_values = <<>>
    /\ current_result_data = None
HistIdle ==
    /\ historical_results = <<>>
    /\ prediction = None
    /\ features_df = None

\* --------------------------------------------- the pure functions, applied
SeqsUpTo(S, n) == UNION {[1..k -> S] : k \in 0..n}

\* get_tai_xiu_result on lists of two or three values
InitDice ==
    /\ IngestIdle /\ QueryIdle /\ HistIdle
    /\ xuc_xac_values \in [1..2 -> 1..MaxFace] \cup [1..3 -> 1..MaxFace]
    /\ current_result_data = None
    /\ phase = "input"

CallGetTaiXiuResult ==
    /\ phase = "input"
    /\ current_result_data' = get_tai_xiu_result(xuc_xac_values)
    /\ phase' = "done"
    /\ UNCHANGED <<ingest_vars, query_vars, hist_vars, xuc_xac_values>>

NextDice == CallGetTaiXiuResult
SpecDice == InitDice /\ [][NextDice]_vars

\* analyze_patterns_and_predict on the outcome list the endpoint builds from
\* its query (newest session first), lines 255-276
InitHist ==
    /\ IngestIdle /\ QueryIdle /\ DiceIdle
    /\ historical_results \in SeqsUpTo(Outcomes, MaxHist)
    /\ prediction = None
    /\ features_df = None
    /\ phase = "input"

CallAnalyze ==
    /\ phase = "input"
    /\ \E res \in analyze_patterns_and_predict(historical_results) :
          prediction' = res
    /\ phase' = "done"
    /\ UNCHANGED <<ingest_vars, query_vars, dice_vars, historical_results,
                   features_df>>

NextPredict == CallAnalyze
SpecPredict == InitHist /\ [][NextPredict]_vars

\* extract_features on an outcome list, newest first
CallExtractFeatures ==
    /\ phase = "input"
    /\ features_df' = extract_features(historical_results)
    /\ phase' = "done"
    /\ UNCHANGED <<ingest_vars, query_vars, dice_vars, historical_results,
                   prediction>>

NextFeatures == CallExtractFeatures
SpecFeatures == InitHist /\ [][NextFeatures]_vars

\* --------------------------------------------------------- the external feed
\* str(n) of a non-negative integer: its decimal digits, as a tuple
RECURSIVE str(_)
str(n) == IF n < 10 THEN <<n>> ELSE Append(str(n \div 10), n % 10)

\* int(x.strip()) on the tokens the feed is modelled to send
int(tok) ==
    CASE tok = "3" -> 3 [] tok = " 4" -> 4 [] tok = "5" -> 5
      [] tok = "6" -> 6 [] tok = "7" -> 7
      [] OTHER -> Raised("ValueError")
IsInt(tok) == tok \in {"3", " 4", "5", "6", "7"}

\* datetime.strptime(s, "%Y-%m-%d %H:%M:%S"): the second of the day
strptime(s) ==
    CASE s = "2024-01-01 00:00:09" -> 9
      [] s = "2024-01-01 00:00:10" -> 10
      [] OTHER -> Raised("ValueError")
IsTime(s) == s \in {"2024-01-01 00:00:09", "2024-01-01 00:00:10"}

\* The "data" object of a payload is a dict: a function on the keys it has.
\* OpenCode is kept as the list open_code_str.split(',') gives.
Data(expect, open_code, open_time) ==
    ("Expect" :> expect) @@ ("OpenCode" :> open_code) @@ ("OpenTime" :> open_time)
Without(d, key) == [k \in (DOMAIN d) \ {key} |-> d[k]]

Session9 == Data(9, <<"3", " 4", "5">>, "2024-01-01 00:00:09")
Session10 == Data(10, <<"6", "6", "7">>, "2024-01-01 00:00:10")

Ok200(state, data) ==
    [kind |-> "http", status_code |-> 200, state |-> state, data |-> data]

\* What client.get can deliver
GoodResponses == {Ok200(1, Session9), Ok200(1, Session10)}
BadResponses ==
    { [kind |-> "RequestError"],
      [kind |-> "http", status_code |-> 500],
      Ok200(0, Session9),
      Ok200(1, EmptyDict),
      Ok200(1, Without(Session9, "Expect")),
      Ok200(1, Without(Session10, "OpenCode")),
      Ok200(1, Without(Session9, "OpenTime")),
      Ok200(1, Data(10, <<"6", "x", "6">>, "2024-01-01 00:00:10")),
      Ok200(1, Data(9, <<"3", "5">>, "2024-01-01 00:00:09")),
      Ok200(1, Data(10, <<"6", "6", "7">>, "01/01/2024")) }
Responses == GoodResponses \cup BadResponses

\* ------------------------------------------------------- the session table
\* A row of phien_tai_xiu (created_at is not modelled).
Row(id, expect_string, open_time, res) ==
    [id |-> id, expect_string |-> expect_string, open_time |-> open_time,
     ket_qua |-> res.Ket_qua, tong |-> res.Tong, xuc_xac_1 |-> res.Xuc_xac_1,
     xuc_xac_2 |-> res.Xuc_xac_2, xuc_xac_3 |-> res.Xuc_xac_3]

\* query(PhienTaiXiu).filter(expect_string == e).first()
Existing(table, e) == {i \in 1..Len(table) : table[i].expect_string = e}

\* Variant: the column declared without unique=True.
NoUniqueIndex(table, e) == FALSE
\* The unique index on expect_string: whether inserting e is rejected.
UniqueViolation(table, e) == Existing(table, e) # {}

\* --------------------------------------------------- the background task
\* Lines 153-168, from the delivered response to the values of the new row.
\* The result is one of: an exception raised inside the try block, "invalid"
\* (the else branch of line 156), "seen" (the else branch of line 160), or the
\* parsed values.
Parse(r, last) ==
    IF r.kind = "RequestError" THEN Raised("RequestError")
    ELSE IF r.status_code # 200 THEN Raised("HTTPStatusError")
    ELSE IF ~(r.state = 1 /\ DOMAIN r.data # {}) THEN [skip |-> "invalid"]
    ELSE LET data == r.data
         IN  IF "Expect" \notin DOMAIN data THEN Raised("KeyError")
             ELSE LET expect_str == str(data["Expect"])
                  IN  IF <<expect_str>> = last THEN [skip |-> "seen"]
                      ELSE IF "OpenCode" \notin DOMAIN data THEN Raised("KeyError")
                      ELSE IF \E i \in DOMAIN data["OpenCode"] :
                                 ~IsInt(data["OpenCode"][i])
                           THEN Raised("ValueError")
                      ELSE IF "OpenTime" \notin DOMAIN data THEN Raised("KeyError")
                      ELSE IF ~IsTime(data["OpenTime"]) THEN Raised("ValueError")
                      ELSE LET xuc_xac_values_ ==
                                   [i \in DOMAIN data["OpenCode"] |->
                                       int(data["OpenCode"][i])]
                               res == get_tai_xiu_result(xuc_xac_values_)
                           IN  IF "exc" \in DOMAIN res THEN res
                               ELSE [expect_str |-> expect_str,
                                     open_time_dt |-> strptime(data["OpenTime"]),
                                     current_result_data |-> res]

\* Variant: only httpx.RequestError caught; anything else leaves the coroutine.
OnExceptionOnlyRequestError(exc) ==
    IF exc = "RequestError" THEN "sleep" ELSE "exited"
\* Where the task goes when the try block of lines 150-208 raises exc: both
\* except clauses (lines 210-213) fall through to the sleep of line 215.
OnException(exc) == "sleep"

\* Variant: a loop that never reads the flag.
WhileTrue(p) == TRUE
\* The condition of the while loop, line 149.
LoopCondition(p) == is_background_task_running[p]

\* The line each except clause and each else branch prints.
LogOfException(exc) ==
    IF exc = "RequestError" THEN "Error connecting to external API"
    ELSE "Unexpected error in background task"
LogOfSkip(why) ==
    IF why = "seen" THEN "already processed" ELSE "External API data invalid or empty"

\* startup_event
Startup(p) ==
    /\ pc[p] = "idle"
    /\ is_background_task_running' =
          [is_background_task_running EXCEPT ![p] = TRUE]
    /\ pc' = [pc EXCEPT ![p] = "loop"]
    /\ UNCHANGED <<rest_vars, store, last_processed_expect, response, new_phien, log>>

\* shutdown_event
Shutdown(p) ==
    /\ is_background_task_running[p]
    /\ is_background_task_running' =
          [is_background_task_running EXCEPT ![p] = FALSE]
    /\ UNCHANGED <<rest_vars, store, pc, last_processed_expect, response,
                   new_phien, log>>

\* line 149: the loop test; passing it issues the request of line 152
WhileCheck(p) ==
    /\ pc[p] = "loop"
    /\ pc' = [pc EXCEPT ![p] = IF LoopCondition(p) THEN "fetch" ELSE "exited"]
    /\ UNCHANGED <<rest_vars, store, is_background_task_running,
                   last_processed_expect, response, new_phien, log>>

\* line 152: await client.get(...) completes (or times out after 10 s)
Receive(p) ==
    /\ pc[p] = "fetch"
    /\ \E r \in Responses : response' = [response EXCEPT ![p] = r]
    /\ pc' = [pc EXCEPT ![p] = "got"]
    /\ UNCHANGED <<rest_vars, store, is_background_task_running,
                   last_processed_expect, new_phien, log>>

\* lines 153-171 and 205-213: status, envelope, parsing, outcome
Process(p) ==
    /\ pc[p] = "got"
    /\ LET out == Parse(response[p], last_processed_expect[p])
       IN  IF "exc" \in DOMAIN out
           THEN /\ pc' = [pc EXCEPT ![p] = OnException(out.exc)]
                /\ log' = [log EXCEPT ![p] = LogOfException(out.exc)]
                /\ new_phien' = new_phien
           ELSE IF "skip" \in DOMAIN out
           THEN /\ pc' = [pc EXCEPT ![p] = "sleep"]
                /\ log' = [log EXCEPT ![p] = LogOfSkip(out.skip)]
                /\ new_phien' = new_phien
           ELSE /\ pc' = [pc EXCEPT ![p] = "check"]
                /\ log' = [log EXCEPT ![p] = "Detected new session"]
                /\ new_phien' = [new_phien EXCEPT ![p] = out]
    /\ response' = [response EXCEPT ![p] = None]
    /\ UNCHANGED <<rest_vars, store, is_background_task_running,
                   last_processed_expect>>

\* lines 173-177, 191-194: the exists query and its "already exists" branch
ExistsCheck(p) ==
    /\ pc[p] = "check"
    /\ IF Existing(store, new_phien[p].expect_str) # {}
       THEN /\ last_processed_expect' =
                  [last_processed_expect EXCEPT ![p] = <<new_phien[p].expect_str>>]
            /\ new_phien' = [new_phien EXCEPT ![p] = None]
            /\ log' = [log EXCEPT ![p] = "already exists in DB"]
            /\ pc' = [pc EXCEPT ![p] = "sleep"]
       ELSE /\ pc' = [pc EXCEPT ![p] = "commit"]
            /\ UNCHANGED <<last_processed_expect, new_phien, log>>
    /\ UNCHANGED <<rest_vars, store, is_background_task_running, response>>

\* lines 178-190, 194-199, 203-204: add and commit; the unique index rejects a
\* second row of the same expect_string with IntegrityError, which is rolled
\* back.  (Database faults other than that one are not modelled.)
Commit(p) ==
    /\ pc[p] = "commit"
    /\ LET n == new_phien[p]
       IN  /\ IF UniqueViolation(store, n.expect_str)
              THEN /\ store' = store
                   /\ log' = [log EXCEPT ![p] = "IntegrityError"]
              ELSE /\ store' = Append(store,
                                      Row(Len(store) + 1, n.expect_str,
                                          n.open_time_dt, n.current_result_data))
                   /\ log' = [log EXCEPT ![p] = "Saved session to DB"]
           /\ last_processed_expect' =
                 [last_processed_expect EXCEPT ![p] = <<n.expect_str>>]
    /\ new_phien' = [new_phien EXCEPT ![p] = None]
    /\ pc' = [pc EXCEPT ![p] = "sleep"]
    /\ UNCHANGED <<rest_vars, is_background_task_running, response>>

\* line 215: await asyncio.sleep(polling_interval) ends the iteration
Sleep(p) ==
    /\ pc[p] = "sleep"
    /\ pc' = [pc EXCEPT ![p] = "loop"]
    /\ log' = [log EXCEPT ![p] = Plain]
    /\ UNCHANGED <<rest_vars, store, is_background_task_running,
                   last_processed_expect, response, new_phien>>

NextIngest ==
    \E p \in Pollers :
        \/ Startup(p) \/ Shutdown(p)
        \/ WhileCheck(p) \/ Receive(p) \/ Process(p) \/ ExistsCheck(p)
        \/ Commit(p) \/ Sleep(p)

\* the steps of one background task
Task(p) ==
    \/ WhileCheck(p) \/ Receive(p) \/ Process(p) \/ ExistsCheck(p)
    \/ Commit(p) \/ Sleep(p)

InitIngest ==
    /\ IngestIdle /\ QueryIdle /\ DiceIdle /\ HistIdle
    /\ phase = "serving"

\* The ingestion loops alone, each task scheduled fairly.
SpecLoop ==
    InitIngest /\ [][NextIngest]_vars
    /\ \A p \in Pollers : WF_vars(Task(p))

\* ------------------------------------------------------ the query endpoint
HISTORY_LIMIT_FOR_ANALYSIS == 100
DISPLAY_HISTORY_LIMIT == 20

\* The order of two expect_string values in the text column: character by
\* character, a proper prefix first.
StrLess(a, b) ==
    \E k \in 1..(Len(b)) :
        /\ \A j \in 1..(k - 1) : j <= Len(a) /\ a[j] = b[j]
        /\ (k > Len(a) \/ (k <= Len(a) /\ a[k] < b[k]))
        /\ k - 1 <= Len(a)

\* order_by(PhienTaiXiu.expect_string.desc()) over a set of row positions
RECURSIVE OrderDesc(_, _)
OrderDesc(table, idx) ==
    IF idx = {} THEN <<>>
    ELSE LET top == CHOOSE i \in idx : \A j \in idx :
                        \/ j = i
                        \/ StrLess(table[j].expect_string, table[i].expect_string)
                        \/ (table[j].expect_string = table[i].expect_string /\ i < j)
         IN  <<table[top]>> \o OrderDesc(table, idx \ {top})
OrderByExpectDesc(table) == OrderDesc(table, 1..Len(table))

\* open_time.strftime("%Y-%m-%d %H:%M:%S")
strftime(t) ==
    CASE t = 9 -> "2024-01-01 00:00:09"
      [] t = 10 -> "2024-01-01 00:00:10"

\* lines 258-268: one entry of lich_su_formatted_full
Formatted(row) ==
    [Phien |-> row.expect_string, Ket_qua |-> row.ket_qua, Tong |-> row.tong,
     Xuc_xac_1 |-> row.xuc_xac_1, Xuc_xac_2 |-> row.xuc_xac_2,
     Xuc_xac_3 |-> row.xuc_xac_3, OpenTime |-> strftime(row.open_time)]

\* lines 293-297: what "except Exception" makes of anything raised inside the
\* try block, the HTTPException of line 244 included
ExceptException(e) ==
    [status_code |-> 500, raised |-> e]

\* lines 241-247: the latest session, or the not-found exception
QueryLatest ==
    /\ qpc \in {"idle", "done"}
    /\ n_queries < MaxQueries
    /\ n_queries' = n_queries + 1
    /\ LET rows == OrderByExpectDesc(store)
       IN  IF rows = <<>>
           THEN /\ current_phien_record' = None
                /\ http_response' = ExceptException([status_code |-> 404])
                /\ qpc' = "done"
           ELSE /\ current_phien_record' = rows[1]
                /\ http_response' = None
                /\ qpc' = "history"
    /\ UNCHANGED <<ingest_vars, dice_vars, hist_vars, phase>>

\* lines 255-291: the history window, the prediction, the response
QueryHistory ==
    /\ qpc = "history"
    /\ LET lich_su == Take(OrderByExpectDesc(store), HISTORY_LIMIT_FOR_ANALYSIS)
           lich_su_formatted_full == [i \in 1..Len(lich_su) |-> Formatted(lich_su[i])]
           lich_su_formatted_display ==
               Take(lich_su_formatted_full, DISPLAY_HISTORY_LIMIT)
           historical_outcomes_for_analysis ==
               [i \in 1..Len(lich_su) |-> lich_su_formatted_full[i].Ket_qua]
       IN  \E pred \in analyze_patterns_and_predict(historical_outcomes_for_analysis) :
              http_response' =
                 [status_code |-> 200,
                  Ket_qua_phien_hien_tai |-> current_phien_record.ket_qua,
                  Ma_phien_hien_tai |-> current_phien_record.expect_string,
                  Tong_diem_hien_tai |-> current_phien_record.tong,
                  Xuc_xac_hien_tai |-> <<current_phien_record.xuc_xac_1,
                                         current_phien_record.xuc_xac_2,
                                         current_phien_record.xuc_xac_3>>,
                  Lich_su_gan_nhat |-> lich_su_formatted_display,
                  Du_doan_phien_tiep_theo |-> pred]
    /\ qpc' = "done"
    /\ UNCHANGED <<ingest_vars, dice_vars, hist_vars, phase, current_phien_record,
                   n_queries>>

NextQuery == QueryLatest \/ QueryHistory

\* ------------------------------------------------ the service as a whole
Init == InitIngest
Next == NextIngest \/ NextQuery
Spec == Init /\ [][Next]_vars

\* ------------------------------------------------------------------ claims
\* C1: for any interleaving of the exists-check, insert and commit steps of
\* concurrent ingestion loops, the table never holds two rows of one
\* session id; and a loop whose commit finds the id already stored gets
\* IntegrityError, leaves the table as it is, marks the session as processed
\* and goes on to its sleep (it neither fails nor stops).
C1_ExactlyOneRow ==
    /\ [](\A i, j \in 1..Len(store) :
            store[i].expect_string = store[j].expect_string => i = j)
    /\ [][\A p \in Pollers :
            (/\ pc[p] = "commit"
             /\ pc'[p] # "commit"
             /\ Existing(store, new_phien[p].expect_str) # {})
            => /\ store' = store
               /\ log'[p] = "IntegrityError"
               /\ last_processed_expect'[p] = <<new_phien[p].expect_str>>
               /\ pc'[p] = "sleep"]_vars

\* C1 witness: a loop lost the race (its commit raised IntegrityError), sits
\* in its sleep, and the table holds the session once.
C1_Witness ==
    \E p \in Pollers :
        /\ pc[p] = "sleep"
        /\ log[p] = "IntegrityError"
        /\ Cardinality(Existing(store, last_processed_expect[p][1])) = 1

\* C3 (as claimed): when the table holds no session, the query endpoint
\* answers with the not-found status and never with the internal-server-error
\* status.
C3_EmptyStoreIsNotFound ==
    (qpc = "done" /\ current_phien_record = None)
    => /\ http_response.status_code = 404
       /\ http_response.status_code # 500

\* C4: an iteration whose fetch fails (network error, non-2xx status,
\* unhealthy envelope) or whose record is malformed (missing field,
\* non-numeric dice, dice count other than 3, bad timestamp) leaves the table
\* unchanged and reaches the sleep before the next tick; and a loop ends only
\* at its loop test with the running flag cleared, never through a failure.
C4_FailedIterationIsSkipped ==
    /\ [][\A p \in Pollers :
            (pc[p] = "fetch" /\ pc'[p] # "fetch") => store' = store]_vars
    /\ [][\A p \in Pollers :
            (/\ pc[p] = "got"
             /\ pc'[p] # "got"
             /\ response[p] \in BadResponses)
            => /\ store' = store
               /\ new_phien'[p] = None
               /\ pc'[p] = "sleep"]_vars
    /\ [][\A p \in Pollers :
            (pc[p] # "exited" /\ pc'[p] = "exited")
            => (pc[p] = "loop" /\ ~is_background_task_running[p])]_vars

\* C4 witness: a loop is in its sleep after an iteration that ended in the
\* general except clause, and the table still holds a session stored earlier.
C4_Witness ==
    \E p \in Pollers :
        /\ pc[p] = "sleep"
        /\ log[p] = "Unexpected error in background task"
        /\ store # <<>>

C11_StoredDiceInRange ==
    \A i \in 1..Len(store) :
        LET row == store[i]
        IN  /\ row.xuc_xac_1 \in 1..6
            /\ row.xuc_xac_2 \in 1..6
            /\ row.xuc_xac_3 \in 1..6
            /\ row.tong = row.xuc_xac_1 + row.xuc_xac_2 + row.xuc_xac_3
            /\ row.tong \in 3..18

\* C12 (as claimed): with session ids that are numbers growing with the
\* opening time, the read of the latest session returns the stored session of
\* the numerically largest id, and the history listing of a successful
\* response has at most DISPLAY_HISTORY_LIMIT entries in decreasing numeric
\* order of id, whatever the number of digits of the ids.
C12_LatestIsNumericallyLargest ==
    /\ [][LET NumLess(a, b) ==
                   Len(a) < Len(b) \/ (Len(a) = Len(b) /\ StrLess(a, b))
               IdsGrowWithOpenTime ==
                   \A i, j \in 1..Len(store) :
                       NumLess(store[i].expect_string, store[j].expect_string)
                       <=> store[i].open_time < store[j].open_time
           IN  (qpc # "history" /\ qpc' = "history" /\ IdsGrowWithOpenTime)
               => \A i \in 1..Len(store) :
                     \/ store[i].expect_string = current_phien_record'.expect_string
                     \/ NumLess(store[i].expect_string,
                                current_phien_record'.expect_string)]_vars
    /\ [][LET NumLess(a, b) ==
                   Len(a) < Len(b) \/ (Len(a) = Len(b) /\ StrLess(a, b))
               IdsGrowWithOpenTime ==
                   \A i, j \in 1..Len(store) :
                       NumLess(store[i].expect_string, store[j].expect_string)
                       <=> store[i].open_time < store[j].open_time
               lich_su == http_response'.Lich_su_gan_nhat
           IN  (qpc = "history" /\ qpc' = "done" /\ IdsGrowWithOpenTime)
               => /\ Len(lich_su) <= DISPLAY_HISTORY_LIMIT
                  /\ \A i \in 1..(Len(lich_su) - 1) :
                        NumLess(lich_su[i + 1].Phien, lich_su[i].Phien)]_vars

\* C13 (as claimed): whenever the run rule fires, the run length it reports
\* is the length k of the longest run of identical outcomes at the head of the
\* sequence the rule examines, and the confidence is min(85, 50 + 5*k)
\* percent (75 for a head run of 5, 85 for a head run of 7 or more).
C13_RunLengthAndConfidence ==
    (/\ phase = "done"
     /\ prediction # None
     /\ prediction.ly_do = CauBet)
    => LET r == recent_history(historical_results)
           k == _calculate_streak(r, r[1])
       IN  /\ prediction.dai = k
           /\ prediction.pct = (IF 50 + 5 * k < 85 THEN 50 + 5 * k ELSE 85)

\* C14 (as claimed): in every successful response of the query endpoint the
\* session reported as current is the first entry of the history listing,
\* also when an ingestion loop commits between the endpoint's read of the
\* latest session and its read of the history window.
C14_CurrentHeadsHistory ==
    (/\ qpc = "done"
     /\ http_response # None
     /\ http_response.status_code = 200)
    => /\ http_response.Lich_su_gan_nhat # <<>>
       /\ http_response.Ma_phien_hien_tai =
             http_response.Lich_su_gan_nhat[1].Phien

\* C2: for every dice triple (d1,d2,d3) with each value in 1..6,
\* get_tai_xiu_result returns total = d1+d2+d3 and the outcome Xiu (Low)
\* whenever d1 = d2 = d3, otherwise Tai (High) exactly when 11 <= total <= 17
\* and Xiu otherwise.
C2_OutcomeOfDice ==
    (/\ phase = "done"
     /\ Len(xuc_xac_values) = 3
     /\ \A i \in 1..3 : xuc_xac_values[i] \in 1..6)
    => LET d == xuc_xac_values
           total == d[1] + d[2] + d[3]
       IN  /\ "exc" \notin DOMAIN current_result_data
           /\ current_result_data.Tong = total
           /\ current_result_data.Ket_qua =
                 (IF d[1] = d[2] /\ d[2] = d[3] THEN Xiu
                  ELSE IF 11 <= total /\ total <= 17 THEN Tai ELSE Xiu)

\* C2 witness: the triple 5-5-5 (total 15, inside the Tai range) was derived
\* and came out Xiu.
C2_Witness ==
    /\ phase = "done"
    /\ xuc_xac_values = <<5, 5, 5>>
    /\ current_result_data.Tong = 15
    /\ current_result_data.Ket_qua = Xiu

\* C5 (as claimed): for every history of length >= 5, newest first, whose
\* three or more newest outcomes are identical, the prediction is that
\* outcome with the run rationale.
C5_RunRuleOnNewest ==
    (/\ phase = "done"
     /\ Len(historical_results) >= 5
     /\ historical_results[1] = historical_results[2]
     /\ historical_results[2] = historical_results[3])
    => /\ prediction.Ket_qua_du_doan = historical_results[1]
       /\ prediction.ly_do = CauBet

\* C6 (as claimed): for every history of length >= 5, newest first, whose four
\* newest outcomes are A,B,B,A with A # B, the prediction is B with the
\* paired-motif rationale.
C6_PairedMotifOnNewest ==
    (/\ phase = "done"
     /\ Len(historical_results) >= 5
     /\ historical_results[1] = historical_results[4]
     /\ historical_results[2] = historical_results[3]
     /\ historical_results[1] # historical_results[2])
    => /\ prediction.Ket_qua_du_doan = historical_results[2]
       /\ prediction.ly_do = Cau121

\* C7 (as claimed): for every history of length >= 5 in which no two adjacent
\* outcomes are equal, the prediction is, with the alternation rationale, the
\* outcome opposite to the newest one (the first element).
C7_AlternationOppositeOfNewest ==
    (/\ phase = "done"
     /\ Len(historical_results) >= 5
     /\ \A i \in 1..(Len(historical_results) - 1) :
           historical_results[i] # historical_results[i + 1])
    => /\ prediction.Ket_qua_du_doan =
             (IF historical_results[1] = Tai THEN Xiu ELSE Tai)
       /\ prediction.ly_do = CauDao

C9_FeatureFrameShape ==
    (phase = "done" /\ features_df # None)
    => /\ Len(FEATURE_COLUMNS) = 14
       /\ features_df.columns = FEATURE_COLUMNS
       /\ Len(features_df.rows) = 1
       /\ Len(features_df.rows[1]) = 14
       /\ \A i \in 1..14 : features_df.rows[1][i] # NaN
       /\ historical_results = <<>>
             => \A i \in 1..14 : features_df.rows[1][i] = <<0>>

\* C9 witness: a history of six or more outcomes went through the extractor
\* and its paired-alternation column (the twelfth) came out 1.
C9_Witness ==
    /\ phase = "done"
    /\ features_df # None
    /\ Len(historical_results) >= 6
    /\ features_df.columns[12] = "is_two_streak_alternating_last_6"
    /\ features_df.rows[1][12] = <<1>>

====
